---- MODULE Spec2Model ----
(***************************************************************************)
(* Region-set reconciliation of kitsune_p2p/dht (region/region_set.rs):    *)
(* RegionCoordSetXtcs, RegionSetXtcs::from_store / rectify / diff over a   *)
(* small ring, a small op store and small "now" quanta; and the registry   *)
(* of database environments of state/src/db.rs under concurrent callers.  *)
(***************************************************************************)
EXTENDS Integers, Sequences, FiniteSets

\* ------------------------------------------------------------------ bounds
\* Largest "now" time quantum a gossip round is started with.
MaxNow == 5
\* Largest segment count of an arq.
MaxCount == 2
\* The ring is 2^RingPow space quanta wide (2^32 in the program).
RingPow == 3

\* ------------------------------------------------------------- arithmetic
RECURSIVE Pow2(_)
Pow2(n) == IF n = 0 THEN 1 ELSE 2 * Pow2(n - 1)

\* position of the most significant 1 of n >= 1 (31 - leading_zeros)
RECURSIVE MsbPos(_)
MsbPos(n) == IF n <= 1 THEN 0 ELSE 1 + MsbPos(n \div 2)

Bit(n, i) == (n \div Pow2(i)) % 2

Min(a, b) == IF a < b THEN a ELSE b

\* Vec::concat of a vector of vectors
RECURSIVE Concat(_)
Concat(ss) == IF ss = <<>> THEN <<>> ELSE Head(ss) \o Concat(Tail(ss))

\* ------------------------------------------------------- TelescopingTimes
\* Option<u32>: None is <<>>, Some(n) is <<n>>.
None == <<>>
Some(n) == <<n>>

\* TelescopingTimes::new(time): no window limit
TimesNew(t) == [time |-> t, limit |-> None]

\* TelescopingTimes::empty()
TimesEmpty == [time |-> 0, limit |-> None]

\* TelescopingTimes::limit(n): the same time bound, at most n windows
TimesLimit(tt, n) == [time |-> tt.time, limit |-> Some(n)]

\* The ordering of two TelescopingTimes: by time bound, then by limit
\* (no limit is least).
OptGreater(a, b) ==
    /\ a # None
    /\ (b = None \/ a[1] > b[1])

TimesGreater(a, b) ==
    \/ a.time > b.time
    \/ (a.time = b.time /\ OptGreater(a.limit, b.limit))

\* The loop of TelescopingTimes::segments: one window of width 2^power per
\* remaining bit of now, two where that bit is 1, oldest first, at most max.
RECURSIVE SegLoop(_, _, _, _, _)
SegLoop(now, power, offset, max, acc) ==
    IF power = 0 THEN acc
    ELSE LET p    == power - 1
             o    == 2 * offset
             acc1 == Append(acc, [power |-> p, offset |-> o])
         IN  IF max - 1 = 0 THEN acc1
             ELSE IF Bit(now, p) = 1
                  THEN LET acc2 == Append(acc1, [power |-> p, offset |-> o + 1])
                       IN  IF max - 2 = 0 THEN acc2
                           ELSE SegLoop(now, p, o + 2, max - 2, acc2)
                  ELSE SegLoop(now, p, o + 1, max - 1, acc1)

\* TelescopingTimes::segments(): the windows covering [0, time), oldest and
\* widest first, widths halving towards now.
TimeSegments(tt) ==
    LET now   == tt.time + 1
        iters == MsbPos(now)
        max   == IF tt.limit = None THEN 2 * iters ELSE tt.limit[1]
    IN  IF now = 1 \/ max = 0 THEN <<>>
        ELSE SegLoop(now, iters, 0, max, <<>>)

\* TimeSegment::num_quanta
NumQuanta(seg) == Pow2(seg.power)

SegLengths(tt) == [i \in 1..Len(TimeSegments(tt)) |-> NumQuanta(TimeSegments(tt)[i])]

\* ------------------------------------------------------------ RegionData
\* The digest of an op set: count, total size, and the xor of the op hashes
\* (each op hashes to its own bit, so the xor is a symmetric difference).
DigestZero == [count |-> 0, size |-> 0, hash |-> {}]

\* RegionData's Add / AddAssign
Combine(d, e) ==
    [count |-> d.count + e.count,
     size  |-> d.size + e.size,
     hash  |-> (d.hash \ e.hash) \cup (e.hash \ d.hash)]

\* Op::region_data
OpData(op) == [count |-> 1, size |-> op.size, hash |-> {op}]

RECURSIVE CombineAll(_)
CombineAll(ops) ==
    IF ops = {} THEN DigestZero
    ELSE LET op == CHOOSE o \in ops : TRUE
         IN  Combine(OpData(op), CombineAll(ops \ {op}))

\* ----------------------------------------------------------- RegionCoords
\* SpaceSegment / TimeSegment containment of a quantized coordinate
SegContains(seg, q) == q \div Pow2(seg.power) = seg.offset

\* RegionCoords::contains
CoordsContains(coords, op) ==
    /\ SegContains(coords.space, op.loc)
    /\ SegContains(coords.time, op.time)

\* AccessOpStore::query_region_coords
QueryRegionCoords(store, coords) ==
    CombineAll({op \in store : CoordsContains(coords, op)})

\* ------------------------------------------------------------------- Arq
\* ArqBounds::segments(): count equal chunks of 2^power quanta from start,
\* wrapping around the ring
ArqSegments(arq) ==
    [c \in 1..arq.count |->
        [power  |-> arq.power,
         offset |-> (arq.start + c - 1) % Pow2(RingPow - arq.power)]]

\* ArqBoundsSet::empty()
ArqSetEmpty == <<>>

\* total number of segments over all arqs of the set
RECURSIVE TotalSegments(_)
TotalSegments(arqs) ==
    IF arqs = <<>> THEN 0 ELSE Head(arqs).count + TotalSegments(Tail(arqs))

\* ---------------------------------------------------- RegionCoordSetXtcs
\* RegionCoordSetXtcs::new
CoordsNew(times, arq_set) == [times |-> times, arq_set |-> arq_set]

\* RegionCoordSetXtcs::empty()
CoordsEmpty == CoordsNew(TimesEmpty, ArqSetEmpty)

\* The rows one arq contributes: one row per segment of the arq, one entry
\* per time window; the tag is (index of the segment within its arq, index of
\* the window), both counted from 0.
ArqRows(arq, times) ==
    LET xs == ArqSegments(arq)
        ts == TimeSegments(times)
    IN  [ix \in 1..Len(xs) |->
            [it \in 1..Len(ts) |->
                [tag    |-> <<ix - 1, it - 1>>,
                 coords |-> [space |-> xs[ix], time |-> ts[it]]]]]

RECURSIVE NestedOver(_, _)
NestedOver(arqs, times) ==
    IF arqs = <<>> THEN <<>>
    ELSE ArqRows(Head(arqs), times) \o NestedOver(Tail(arqs), times)

\* Mutant of region_coords_nested: only the first arq of the set is walked.
RegionCoordsNestedFirstArqOnly(coords) ==
    IF coords.arq_set = <<>> THEN <<>>
    ELSE ArqRows(Head(coords.arq_set), coords.times)

\* RegionCoordSetXtcs::region_coords_nested
RegionCoordsNested(coords) == NestedOver(coords.arq_set, coords.times)

\* RegionCoordSetXtcs::region_coords_flat
RegionCoordsFlat(coords) == Concat(RegionCoordsNested(coords))

\* --------------------------------------------------------- RegionSetXtcs
\* RegionSetXtcs::from_data
FromData(coords, data) == [coords |-> coords, data |-> data]

\* RegionSetXtcs::empty()
SetEmpty == FromData(CoordsEmpty, <<>>)

\* Mutant of from_store: every cell of a row is queried with the coordinates
\* of the row's first window.
FromStoreFirstWindow(store, coords) ==
    LET nested == RegionCoordsNested(coords)
    IN  FromData(coords,
            [i \in 1..Len(nested) |->
                [j \in 1..Len(nested[i]) |->
                    QueryRegionCoords(store, nested[i][1].coords)]])

\* RegionSetXtcs::from_store: every cell is the store's digest of the cell's
\* rectangle, rows and columns in the order of region_coords_nested
FromStore(store, coords) ==
    LET nested == RegionCoordsNested(coords)
    IN  FromData(coords,
            [i \in 1..Len(nested) |->
                [j \in 1..Len(nested[i]) |->
                    QueryRegionCoords(store, nested[i][j].coords)]])

\* The callback handed to into_region_set: it answers with the store's digest
\* of the coordinates, or with an error naming them where it is set to fail.
ApplyF(f, item) ==
    IF item.coords \in f.fails
    THEN [ok |-> FALSE, value |-> item.coords]
    ELSE [ok |-> TRUE, value |-> QueryRegionCoords(f.store, item.coords)]

\* column.map(&mut f).collect::<Result<Vec<D>, E>>(): f is applied item by
\* item and the first error ends the iteration; calls lists the items f was
\* invoked with.
RECURSIVE CollectRow(_, _)
CollectRow(f, row) ==
    IF row = <<>> THEN [ok |-> TRUE, value |-> <<>>, calls |-> <<>>]
    ELSE LET r == ApplyF(f, Head(row))
         IN  IF ~r.ok
             THEN [ok |-> FALSE, value |-> r.value, calls |-> <<Head(row)>>]
             ELSE LET rest == CollectRow(f, Tail(row))
                  IN  [ok    |-> rest.ok,
                       value |-> IF rest.ok THEN <<r.value>> \o rest.value
                                 ELSE rest.value,
                       calls |-> <<Head(row)>> \o rest.calls]

\* .map(|column| ...).collect::<Result<Vec<Vec<D>>, E>>(): the rows are
\* collected one by one and the first failing row ends the iteration.
RECURSIVE CollectRows(_, _)
CollectRows(f, rows) ==
    IF rows = <<>> THEN [ok |-> TRUE, value |-> <<>>, calls |-> <<>>]
    ELSE LET r == CollectRow(f, Head(rows))
         IN  IF ~r.ok THEN r
             ELSE LET rest == CollectRows(f, Tail(rows))
                  IN  [ok    |-> rest.ok,
                       value |-> IF rest.ok THEN <<r.value>> \o rest.value
                                 ELSE rest.value,
                       calls |-> r.calls \o rest.calls]

\* Mutant of into_region_set: f is applied to every coordinate before the
\* first error is looked for.
IntoRegionSetEager(coords, f) ==
    LET flat == RegionCoordsFlat(coords)
        c == CollectRows(f, RegionCoordsNested(coords))
    IN  [ok    |-> c.ok,
         value |-> IF c.ok THEN FromData(coords, c.value) ELSE c.value,
         calls |-> flat]

\* RegionCoordSetXtcs::into_region_set(f): Ok(set) or Err(e) as [ok, value],
\* with the items f was invoked with.
IntoRegionSet(coords, f) ==
    LET c == CollectRows(f, RegionCoordsNested(coords))
    IN  [ok    |-> c.ok,
         value |-> IF c.ok THEN FromData(coords, c.value) ELSE c.value,
         calls |-> c.calls]

\* Mutant of count: the number of rows.
CountRows(set) == Len(set.data)

\* RegionSetXtcs::count
Count(set) ==
    IF set.data = <<>> THEN 0 ELSE Len(set.data) * Len(set.data[1])

\* enum RegionSet: the Xtcs variant
Xtcs(set) == [variant |-> "Xtcs", set |-> set]

\* RegionSet::count
RegionSetCount(rs) == CASE rs.variant = "Xtcs" -> Count(rs.set)

\* RegionSetXtcs::regions: each flat coordinate with the cell its tag indexes
Regions(set) ==
    LET flat == RegionCoordsFlat(set.coords)
    IN  [k \in 1..Len(flat) |->
            [coords |-> flat[k].coords,
             data   |-> set.data[flat[k].tag[1] + 1][flat[k].tag[2] + 1]]]

\* The merge loop of TelescopingTimes::rectify at (1-based) index i: while the
\* left window is narrower than the right one at i and is not the last, fold
\* the following window and cell into it; then move on.  A row without
\* windows is left as it is.
RECURSIVE MergeLoop(_, _, _, _)
MergeLoop(lt, rt, ld, i) ==
    IF i >= Len(lt) THEN ld
    ELSE IF lt[i] < rt[i]
         THEN MergeLoop(
                 [k \in 1..(Len(lt) - 1) |->
                     IF k < i THEN lt[k]
                     ELSE IF k = i THEN lt[i] + lt[i + 1] ELSE lt[k + 1]],
                 rt,
                 [k \in 1..(Len(ld) - 1) |->
                     IF k < i THEN ld[k]
                     ELSE IF k = i THEN Combine(ld[i], ld[i + 1]) ELSE ld[k + 1]],
                 i)
         ELSE MergeLoop(lt, rt, ld, i + 1)

\* TelescopingTimes::rectify((at, ad), (bt, bd)): the row of the side with
\* the smaller time bound is merged, the other row is cut to its length.
TimesRectify(at, ad, bt, bd) ==
    LET aLeft == ~(at.time > bt.time)
        lt == IF aLeft THEN SegLengths(at) ELSE SegLengths(bt)
        rt == IF aLeft THEN SegLengths(bt) ELSE SegLengths(at)
        ld == IF aLeft THEN ad ELSE bd
        rd == IF aLeft THEN bd ELSE ad
        ld2 == MergeLoop(lt, rt, ld, 1)
        rd2 == SubSeq(rd, 1, Min(Len(rd), Len(ld2)))
    IN  IF aLeft THEN [a |-> ld2, b |-> rd2] ELSE [a |-> rd2, b |-> ld2]

\* The body of rectify after the arq set check, with its variations: whether
\* the operands are swapped when self has the greater times, whether the
\* common times are assigned to self, and what is added to the limit.
RectifyBody(self, other, doSwap, setSelfTimes, extra) ==
    LET swap == doSwap /\ TimesGreater(self.coords.times, other.coords.times)
        s == IF swap THEN other ELSE self
        o == IF swap THEN self ELSE other
        n == Min(Len(s.data), Len(o.data))
        row(i) == TimesRectify(s.coords.times, s.data[i],
                               o.coords.times, o.data[i])
        sd == [i \in 1..Len(s.data) |->
                  IF i <= n THEN row(i).a ELSE s.data[i]]
        od == [i \in 1..Len(o.data) |->
                  IF i <= n THEN row(i).b ELSE o.data[i]]
        len == IF n = 0 THEN 0 ELSE Len(sd[n])
        times == TimesLimit(o.coords.times, len + extra)
    IN  [ok    |-> TRUE,
         self  |-> FromData(CoordsNew(IF setSelfTimes THEN times ELSE s.coords.times,
                                      s.coords.arq_set), sd),
         other |-> FromData(CoordsNew(times, o.coords.arq_set), od)]

\* Mutant of rectify: the operands are swapped before the arq sets are
\* compared.
RectifySwapBeforeCheck(self, other) ==
    LET swap == TimesGreater(self.coords.times, other.coords.times)
        s == IF swap THEN other ELSE self
        o == IF swap THEN self ELSE other
    IN  IF s.coords.arq_set # o.coords.arq_set
        THEN [ok |-> FALSE, self |-> s, other |-> o]
        ELSE RectifyBody(s, o, FALSE, TRUE, 0)

\* Mutant of rectify: the common times are not assigned to self.
RectifyKeepSelfTimes(self, other) ==
    IF self.coords.arq_set # other.coords.arq_set
    THEN [ok |-> FALSE, self |-> self, other |-> other]
    ELSE RectifyBody(self, other, TRUE, FALSE, 0)

\* Mutant of rectify: the limit is one more than the common row length.
RectifyLimitOffByOne(self, other) ==
    IF self.coords.arq_set # other.coords.arq_set
    THEN [ok |-> FALSE, self |-> self, other |-> other]
    ELSE RectifyBody(self, other, TRUE, TRUE, 1)

\* Mutant of rectify: the common row length is read from the first row
\* without looking whether there is one, which fails on a grid without rows.
RectifyFailsOnNoRows(self, other) ==
    IF self.coords.arq_set # other.coords.arq_set \/ self.data = <<>>
    THEN [ok |-> FALSE, self |-> self, other |-> other]
    ELSE RectifyBody(self, other, TRUE, TRUE, 0)

\* Mutant of rectify: the rows of the side with the lesser times are cut to
\* the common length instead of being merged.
RectifyCutsBothSides(self, other) ==
    IF self.coords.arq_set # other.coords.arq_set
    THEN [ok |-> FALSE, self |-> self, other |-> other]
    ELSE LET r == RectifyBody(self, other, TRUE, TRUE, 0)
             pre == IF TimesGreater(self.coords.times, other.coords.times)
                    THEN other ELSE self
         IN  [ok    |-> TRUE,
              self  |-> FromData(r.self.coords,
                           [i \in 1..Len(r.self.data) |->
                               SubSeq(pre.data[i], 1, Len(r.self.data[i]))]),
              other |-> r.other]

\* Mutant of rectify: the common times are those of the operand with the
\* lesser times.
RectifyLimitsLesserTimes(self, other) ==
    IF self.coords.arq_set # other.coords.arq_set
    THEN [ok |-> FALSE, self |-> self, other |-> other]
    ELSE LET r == RectifyBody(self, other, TRUE, TRUE, 0)
             pre == IF TimesGreater(self.coords.times, other.coords.times)
                    THEN other ELSE self
             times == TimesLimit(pre.coords.times, r.self.coords.times.limit[1])
         IN  [ok    |-> TRUE,
              self  |-> FromData(CoordsNew(times, r.self.coords.arq_set), r.self.data),
              other |-> FromData(CoordsNew(times, r.other.coords.arq_set), r.other.data)]

\* Mutant of rectify: the operands are never swapped.
RectifyNoSwap(self, other) ==
    IF self.coords.arq_set # other.coords.arq_set
    THEN [ok |-> FALSE, self |-> self, other |-> other]
    ELSE RectifyBody(self, other, FALSE, TRUE, 0)

\* RegionSetXtcs::rectify(&mut self, &mut other): ok is FALSE for
\* ArqSetMismatchForDiff; self and other are the two operands afterwards.
Rectify(self, other) ==
    IF self.coords.arq_set # other.coords.arq_set
    THEN [ok |-> FALSE, self |-> self, other |-> other]
    ELSE LET swap == TimesGreater(self.coords.times, other.coords.times)
             s == IF swap THEN other ELSE self
             o == IF swap THEN self ELSE other
             n == Min(Len(s.data), Len(o.data))
             row(i) == TimesRectify(s.coords.times, s.data[i],
                                    o.coords.times, o.data[i])
             sd == [i \in 1..Len(s.data) |->
                       IF i <= n THEN row(i).a ELSE s.data[i]]
             od == [i \in 1..Len(o.data) |->
                       IF i <= n THEN row(i).b ELSE o.data[i]]
             len == IF n = 0 THEN 0 ELSE Len(sd[n])
             times == TimesLimit(o.coords.times, len)
         IN  [ok    |-> TRUE,
              self  |-> FromData(CoordsNew(times, s.coords.arq_set), sd),
              other |-> FromData(CoordsNew(times, o.coords.arq_set), od)]

\* zip(...).filter_map(|(a, b)| (a.data != b.data).then(|| a)).collect()
RECURSIVE ZipFilter(_, _)
ZipFilter(ra, rb) ==
    IF ra = <<>> \/ rb = <<>> THEN <<>>
    ELSE (IF Head(ra).data # Head(rb).data THEN <<Head(ra)>> ELSE <<>>)
         \o ZipFilter(Tail(ra), Tail(rb))

\* Mutant of diff: the cells whose digests are equal are the ones kept.
RECURSIVE ZipFilterEqual(_, _)
ZipFilterEqual(ra, rb) ==
    IF ra = <<>> \/ rb = <<>> THEN <<>>
    ELSE (IF Head(ra).data = Head(rb).data THEN <<Head(ra)>> ELSE <<>>)
         \o ZipFilterEqual(Tail(ra), Tail(rb))

DiffKeepsEqual(self, other) ==
    LET r == Rectify(self, other)
    IN  IF ~r.ok THEN [ok |-> FALSE, regions |-> <<>>]
        ELSE [ok |-> TRUE,
              regions |-> ZipFilterEqual(Regions(r.self), Regions(r.other))]

\* RegionSetXtcs::diff(self, other)
Diff(self, other) ==
    LET r == Rectify(self, other)
    IN  IF ~r.ok THEN [ok |-> FALSE, regions |-> <<>>]
        ELSE [ok |-> TRUE,
              regions |-> ZipFilter(Regions(r.self), Regions(r.other))]

\* ----------------------------------------------------------- the inputs
Arq(start, power, count) == [start |-> start, power |-> power, count |-> count]

\* The arq sets a round is run over: none, one arq of 0..MaxCount chunks, one
\* arq wrapping around the end of the ring, and two adjacent arqs.
ArqSets ==
    {ArqSetEmpty}
    \cup {<<Arq(0, 1, c)>> : c \in 0..MaxCount}
    \cup {<<Arq(Pow2(RingPow - 1) - 1, 1, 2)>>}
    \cup {<<Arq(0, 1, 1), Arq(1, 1, c)>> : c \in 1..MaxCount}

Op(loc, time, size) == [loc |-> loc, time |-> time, size |-> size]

\* The ops of the first store, and the extra ops the second store may hold.
BaseOps == {Op(0, 1, 1), Op(1, 3, 2)}
ExtraOps == {Op(0, 2, 3), Op(2, 0, 4)}
ExtraSets == SUBSET ExtraOps

\* ------------------------------------------------------------- the state
VARIABLES
    storeA,   \* the op store the first region set was built from
    storeB,   \* the op store the second region set was built from
    A,        \* the first RegionSetXtcs
    B,        \* the second RegionSetXtcs
    rect,     \* the last A.rectify(B): its result and the operands before it
    dAB,      \* the result of A.clone().diff(B.clone()), once computed
    dBA       \* the result of B.clone().diff(A.clone()), once computed

\* The state of the construction of one region set (from_store or
\* into_region_set) and of the database registry of state/src/db.rs.
VARIABLES
    built,    \* the last region set construction: its inputs and its outcome
    dbmap,    \* DB_MAP_MAP: the registered environment paths and their stores
    lock,     \* the RwLock around DB_MAP_MAP: its writer and its readers
    thr,      \* per thread: the call it is in, where it is, what it returned
    okCalls   \* per path: the initialize_databases calls that returned Ok

regionVars == <<storeA, storeB, A, B, rect, dAB, dBA>>
buildVars == <<built>>
dbVars == <<dbmap, lock, thr, okCalls>>
vars == <<storeA, storeB, A, B, rect, dAB, dBA, built, dbmap, lock, thr, okCalls>>

NoRect == [op |-> "none", preA |-> SetEmpty, preB |-> SetEmpty]
NoDiff == [done |-> FALSE, ok |-> FALSE, regions |-> <<>>]

\* No region set has been constructed.
NoBuilt == [kind |-> "none"]

\* The threads that call into db.rs and the environment paths they use;
\* initialize_databases is not called again on a path that MaxOk calls have
\* registered.
NumThreads == 2
MaxOk == 2
Threads == 1..NumThreads
Paths == {"env1", "env2"}

\* EnvironmentKind (Conductor and Wasm) and the keys register_databases
\* registers for it, in order.
Kinds == {"Conductor", "Wasm"}
KindKeys(kind) ==
    IF kind = "Conductor" THEN <<"ConductorState">> ELSE <<"Wasm", "DnaDef">>

\* The keys get_db is called with.
GetKeys == {"ConductorState", "Wasm"}

\* A path that is not a key of DB_MAP_MAP, and a thread that is in no call.
Unregistered == [registered |-> FALSE, um |-> {}]
NoThread == 0
ThreadIdle == [pc |-> "idle", op |-> "none", path |-> "none", arg |-> "none",
               um |-> {}, res |-> "none"]

\* lazy_static DB_MAP_MAP: RwLock::new(HashMap::new())
DbInit ==
    /\ dbmap = [p \in Paths |-> Unregistered]
    /\ lock = [writer |-> NoThread, readers |-> {}]
    /\ thr = [t \in Threads |-> ThreadIdle]
    /\ okCalls = [p \in Paths |-> 0]

RegionInit ==
    /\ storeA = {}
    /\ storeB = {}
    /\ A = SetEmpty
    /\ B = SetEmpty
    /\ rect = NoRect
    /\ dAB = NoDiff
    /\ dBA = NoDiff

Init ==
    /\ RegionInit
    /\ built = NoBuilt
    /\ DbInit

Idle ==
    /\ storeA = {} /\ storeB = {}
    /\ A = SetEmpty /\ B = SetEmpty
    /\ rect = NoRect /\ dAB = NoDiff /\ dBA = NoDiff

\* A gossip round starts: both parties build their region set from their
\* store with from_store, each with its own "now"; the second store holds the
\* first one's ops and possibly more.
NewRound ==
    /\ Idle
    /\ \E na \in 0..MaxNow, nb \in 0..MaxNow, arqsA \in ArqSets,
          arqsB \in ArqSets \cup {<<Arq(1, 1, c)>> : c \in 1..MaxCount},
          ex \in ExtraSets :
          /\ \/ arqsB = arqsA
             \/ (arqsA # <<>> /\ arqsB = Tail(arqsA))
             \/ (arqsA = <<Arq(0, 1, 1)>> /\ arqsB = <<Arq(0, 1, 2)>>)
          /\ storeA' = BaseOps
          /\ storeB' = BaseOps \cup ex
          /\ A' = FromStore(BaseOps, CoordsNew(TimesNew(na), arqsA))
          /\ B' = FromStore(BaseOps \cup ex, CoordsNew(TimesNew(nb), arqsB))
          /\ rect' = NoRect
          /\ dAB' = NoDiff
          /\ dBA' = NoDiff
          /\ UNCHANGED <<buildVars, dbVars>>

\* B becomes A.clone()
Clone ==
    /\ B' = A
    /\ storeB' = storeA
    /\ rect' = NoRect
    /\ dAB' = NoDiff
    /\ dBA' = NoDiff
    /\ UNCHANGED <<storeA, A, buildVars, dbVars>>

\* A.rectify(&mut B)
RectifyAB ==
    LET r == Rectify(A, B)
    IN  /\ A' = r.self
        /\ B' = r.other
        /\ rect' = [op |-> IF r.ok THEN "ok" ELSE "err", preA |-> A, preB |-> B]
        /\ dAB' = NoDiff
        /\ dBA' = NoDiff
        /\ UNCHANGED <<storeA, storeB, buildVars, dbVars>>

\* A.clone().diff(B.clone())
DiffAB ==
    /\ ~dAB.done
    /\ LET d == Diff(A, B)
       IN  dAB' = [done |-> TRUE, ok |-> d.ok, regions |-> d.regions]
    /\ UNCHANGED <<storeA, storeB, A, B, rect, dBA, buildVars, dbVars>>

\* B.clone().diff(A.clone())
DiffBA ==
    /\ ~dBA.done
    /\ LET d == Diff(B, A)
       IN  dBA' = [done |-> TRUE, ok |-> d.ok, regions |-> d.regions]
    /\ UNCHANGED <<storeA, storeB, A, B, rect, dAB, buildVars, dbVars>>

\* The round ends: its region sets are dropped.
EndRound ==
    /\ ~Idle
    /\ storeA' = {}
    /\ storeB' = {}
    /\ A' = SetEmpty
    /\ B' = SetEmpty
    /\ rect' = NoRect
    /\ dAB' = NoDiff
    /\ dBA' = NoDiff
    /\ UNCHANGED <<buildVars, dbVars>>

Next == NewRound \/ Clone \/ RectifyAB \/ DiffAB \/ DiffBA \/ EndRound

Spec == Init /\ [][Next]_vars

\* ------------------------------------------- constructing one region set
\* The arq sets a region set is constructed over: those of a round, and two
\* arqs that share a chunk.
BuildArqSets == ArqSets \cup {<<Arq(0, 1, 2), Arq(1, 1, 1)>>}

\* The stores a region set is constructed from.
BuildOps == BaseOps \cup ExtraOps \cup {Op(Pow2(RingPow) - 1, 4, 5)}
BuildStores == SUBSET BuildOps

\* The flat positions at which the callback may be set to fail.
MaxFailPos == 3

\* RegionSetXtcs::from_store(&store, coords)
BuildFromStore ==
    /\ built = NoBuilt
    /\ \E store \in BuildStores, now \in 0..MaxNow, arqs \in BuildArqSets :
          LET coords == CoordsNew(TimesNew(now), arqs)
          IN  built' = [kind |-> "from_store", store |-> store,
                        coords |-> coords, set |-> FromStore(store, coords)]
    /\ UNCHANGED <<regionVars, dbVars>>

\* coords.into_region_set(f), f failing at the coordinates of some flat
\* positions
BuildIntoRegionSet ==
    /\ built = NoBuilt
    /\ \E ex \in ExtraSets, now \in 0..MaxNow, arqs \in BuildArqSets,
          pos \in SUBSET (1..MaxFailPos) :
          LET coords == CoordsNew(TimesNew(now), arqs)
              flat == RegionCoordsFlat(coords)
              f == [store |-> BaseOps \cup ex,
                    fails |-> {flat[k].coords : k \in pos \cap (1..Len(flat))}]
          IN  built' = [kind |-> "into_region_set", f |-> f,
                        coords |-> coords, out |-> IntoRegionSet(coords, f)]
    /\ UNCHANGED <<regionVars, dbVars>>

\* The constructed set is dropped.
BuildDrop ==
    /\ built # NoBuilt
    /\ built' = NoBuilt
    /\ UNCHANGED <<regionVars, dbVars>>

NextBuild == BuildFromStore \/ BuildIntoRegionSet \/ BuildDrop

SpecBuild == Init /\ [][NextBuild]_vars

\* ------------------------------------------- the database registry (db.rs)
\* Mutant of the write lock: it is handed out whatever the lock's state.
WriteAlways(l) == TRUE

\* RwLock::write() returns once there is no writer and no reader.
CanWrite(l) == l.writer = NoThread /\ l.readers = {}

\* RwLock::read() returns once there is no writer.
CanRead(l) == l.writer = NoThread

\* The thread returns res from its call.
Return(t, res) == [thr EXCEPT ![t].pc = "idle", ![t].res = res, ![t].um = {}]

\* register_databases(&rkv, kind, &mut um): the keys of the kind are
\* registered in order into um; failAt > 0 is the position of the key whose
\* register_db fails, which ends the registration with the error.
RegisterDatabases(kind, failAt) ==
    LET keys == KindKeys(kind)
    IN  IF failAt \in 1..Len(keys)
        THEN [ok |-> FALSE, um |-> {keys[n] : n \in 1..(failAt - 1)}]
        ELSE [ok |-> TRUE, um |-> {keys[n] : n \in 1..Len(keys)}]

\* initialize_databases: let mut dbmap = DB_MAP_MAP.write()
InitLock(t, p, k) ==
    /\ thr[t].pc = "idle"
    /\ okCalls[p] < MaxOk
    /\ CanWrite(lock)
    /\ lock' = [lock EXCEPT !.writer = t]
    /\ thr' = [thr EXCEPT ![t] = [pc |-> "init_locked", op |-> "init",
                                  path |-> p, arg |-> k, um |-> {},
                                  res |-> "none"]]
    /\ UNCHANGED <<dbmap, okCalls, regionVars, buildVars>>

\* match dbmap.entry(path): Occupied returns EnvironmentDoubleInitialized
\* (the guard is dropped), Vacant goes on to register the databases.
InitEntry(t) ==
    /\ thr[t].pc = "init_locked"
    /\ IF dbmap[thr[t].path].registered
       THEN /\ thr' = Return(t, "EnvironmentDoubleInitialized")
            /\ lock' = [lock EXCEPT !.writer = NoThread]
       ELSE /\ thr' = [thr EXCEPT ![t].pc = "init_vacant"]
            /\ lock' = lock
    /\ UNCHANGED <<dbmap, okCalls, regionVars, buildVars>>

\* let mut um = UniversalMap::new(); register_databases(&rkv, kind, &mut um)?
\* : on an error the call returns it and um is dropped.
InitRegister(t) ==
    /\ thr[t].pc = "init_vacant"
    /\ \E failAt \in 0..Len(KindKeys(thr[t].arg)) :
          LET r == RegisterDatabases(thr[t].arg, failAt)
          IN  IF r.ok
              THEN /\ thr' = [thr EXCEPT ![t].pc = "init_registered",
                                         ![t].um = r.um]
                   /\ lock' = lock
              ELSE /\ thr' = Return(t, "RegisterError")
                   /\ lock' = [lock EXCEPT !.writer = NoThread]
    /\ UNCHANGED <<dbmap, okCalls, regionVars, buildVars>>

\* e.insert(um); Ok(())
InitInsert(t) ==
    /\ thr[t].pc = "init_registered"
    /\ dbmap' = [dbmap EXCEPT ![thr[t].path] =
                    [registered |-> TRUE, um |-> thr[t].um]]
    /\ okCalls' = [okCalls EXCEPT ![thr[t].path] = @ + 1]
    /\ thr' = Return(t, "Ok")
    /\ lock' = [lock EXCEPT !.writer = NoThread]
    /\ UNCHANGED <<regionVars, buildVars>>

\* get_db: let dbmap = DB_MAP_MAP.read()
GetLock(t, p, key) ==
    /\ thr[t].pc = "idle"
    /\ CanRead(lock)
    /\ lock' = [lock EXCEPT !.readers = @ \cup {t}]
    /\ thr' = [thr EXCEPT ![t] = [pc |-> "get_locked", op |-> "get",
                                  path |-> p, arg |-> key, um |-> {},
                                  res |-> "none"]]
    /\ UNCHANGED <<dbmap, okCalls, regionVars, buildVars>>

\* dbmap.get(path) or EnvironmentMissing, um.get(key) or StoreNotInitialized
GetLookup(t) ==
    /\ thr[t].pc = "get_locked"
    /\ thr' = Return(t,
                 IF ~dbmap[thr[t].path].registered THEN "EnvironmentMissing"
                 ELSE IF thr[t].arg \notin dbmap[thr[t].path].um
                      THEN "StoreNotInitialized"
                      ELSE "Ok")
    /\ lock' = [lock EXCEPT !.readers = @ \ {t}]
    /\ UNCHANGED <<dbmap, okCalls, regionVars, buildVars>>

NextDb ==
    \E t \in Threads :
        \/ \E p \in Paths, k \in Kinds : InitLock(t, p, k)
        \/ InitEntry(t)
        \/ InitRegister(t)
        \/ InitInsert(t)
        \/ \E p \in Paths, key \in GetKeys : GetLock(t, p, key)
        \/ GetLookup(t)

SpecDb == Init /\ [][NextDb]_vars

\* ------------------------------------------------------------ the claims
\* The data grid has one row per segment of the arq set and one column per
\* window of the TelescopingTimes.
GridMatches(set) ==
    /\ Len(set.data) = TotalSegments(set.coords.arq_set)
    /\ \A i \in 1..Len(set.data) :
          Len(set.data[i]) = Len(TimeSegments(set.coords.times))

\* Some cell of the grid counts at least one op.
HasOps(set) ==
    \E i \in 1..Len(set.data) : \E j \in 1..Len(set.data[i]) :
        set.data[i][j].count > 0

\* The set is as from_store built it: no window limit yet.
Fresh(set) == set.coords.times.limit = None

\* C1: rectifying (or diffing) two sets whose arq sets are not equal fails
\* with ArqSetMismatchForDiff and leaves both operands as they were.
C1_MismatchRejected ==
    /\ (rect.op # "none" /\ rect.preA.coords.arq_set # rect.preB.coords.arq_set)
          => (rect.op = "err" /\ A = rect.preA /\ B = rect.preB)
    /\ (dAB.done /\ A.coords.arq_set # B.coords.arq_set) => ~dAB.ok
    /\ (dBA.done /\ A.coords.arq_set # B.coords.arq_set) => ~dBA.ok

C1_Witness ==
    /\ rect.op = "err"
    /\ HasOps(A) /\ HasOps(B)
    /\ A.coords.times # B.coords.times
    /\ dAB.done

\* C2: after a successful rectify of two sets whose grids match their
\* coordinate generators, both have the same coords, the same number of rows,
\* and every row has as many cells as the common TelescopingTimes has windows.
C2_RectifiedShape ==
    (rect.op = "ok" /\ GridMatches(rect.preA) /\ GridMatches(rect.preB))
        => /\ A.coords = B.coords
           /\ Len(A.data) = Len(B.data)
           /\ \A i \in 1..Len(A.data) :
                 /\ Len(A.data[i]) = Len(TimeSegments(A.coords.times))
                 /\ Len(B.data[i]) = Len(TimeSegments(A.coords.times))

C2_Witness ==
    /\ rect.op = "ok"
    /\ GridMatches(rect.preA) /\ GridMatches(rect.preB)
    /\ rect.preA.coords.times.time > rect.preB.coords.times.time
    /\ Len(A.data) > 1
    /\ Len(A.data[1]) > 1
    /\ Len(A.data[1]) < Len(rect.preA.data[1])
    /\ Len(A.data[1]) < Len(rect.preB.data[1])

\* C3: two sets built by from_store over the same store and arq set with
\* different "now" quanta are equal, coords and data, after rectify.
C3_SameStoreConverges ==
    (/\ rect.op = "ok"
     /\ Fresh(rect.preA) /\ Fresh(rect.preB)
     /\ storeA = storeB
     /\ rect.preA.coords.times # rect.preB.coords.times)
        => A = B

\* The ops of the store all lie before both "now" quanta.
AllOpsBefore(store, setA, setB) ==
    \A op \in store :
        /\ op.time < setA.coords.times.time
        /\ op.time < setB.coords.times.time

\* The scope in which C3's equality does hold: every op of the common store
\* lies before both "now" quanta (as in tests::test_rectify).
C3_ConvergesWhenOpsInPast ==
    (/\ rect.op = "ok"
     /\ Fresh(rect.preA) /\ Fresh(rect.preB)
     /\ storeA = storeB
     /\ AllOpsBefore(storeA, rect.preA, rect.preB))
        => A = B

\* C4 as claimed: rectifying two equal sets leaves both exactly as they were,
\* TelescopingTimes (time bound and window limit) and data included.
C4_EqualSetsUnchanged ==
    (rect.op = "ok" /\ rect.preA = rect.preB)
        => (A = rect.preA /\ B = rect.preB)

\* C4 as amended: two equal sets that a rectify has already limited are left
\* exactly as they were; two equal sets without a window limit keep their
\* data and time bound and get the limit Some(number of columns).
C4_RectifiedSetsUnchanged ==
    (rect.op = "ok" /\ rect.preA = rect.preB)
        => /\ A.data = rect.preA.data /\ B.data = rect.preB.data
           /\ A.coords.arq_set = rect.preA.coords.arq_set
           /\ A.coords.times.time = rect.preA.coords.times.time
           /\ A.coords = B.coords
           /\ ~Fresh(rect.preA) => (A = rect.preA /\ B = rect.preB)
           /\ Fresh(rect.preA) =>
                 A.coords.times.limit =
                     Some(IF A.data = <<>> THEN 0 ELSE Len(A.data[1]))

C4_Witness ==
    /\ rect.op = "ok"
    /\ rect.preA = rect.preB
    /\ ~Fresh(rect.preA)
    /\ HasOps(A)
    /\ Len(A.data) > 1
    /\ Len(A.data[1]) > 1

\* C5: diff(A, A.clone()) succeeds and returns no region.
C5_DiffOfCloneEmpty ==
    /\ (dAB.done /\ A = B) => (dAB.ok /\ dAB.regions = <<>>)
    /\ (dBA.done /\ A = B) => (dBA.ok /\ dBA.regions = <<>>)

C5_Witness ==
    /\ dAB.done /\ A = B
    /\ HasOps(A)
    /\ Len(A.data) > 1
    /\ Len(A.data[1]) > 1

\* The first operand's content after A.rectify(B), whichever of the two
\* variables holds it.
PostOfFirst(a, b) ==
    LET r == Rectify(a, b)
    IN  IF TimesGreater(a.coords.times, b.coords.times) THEN r.other ELSE r.self

\* The cells (i, j) of the grid of coords, in row-major order.
RECURSIVE CellsFrom(_, _)
CellsFrom(nested, i) ==
    IF i > Len(nested) THEN <<>>
    ELSE [j \in 1..Len(nested[i]) |-> <<i, j>>] \o CellsFrom(nested, i + 1)

Cells(coords) == CellsFrom(RegionCoordsNested(coords), 1)

\* C6: every region diff(A, B) returns carries the digest the first operand
\* holds, after rectification, for the cell with that region's coordinates.
C6_DigestOfFirstOperand ==
    (dAB.done /\ dAB.ok)
        => LET post   == PostOfFirst(A, B)
               nested == RegionCoordsNested(post.coords)
           IN  \A k \in 1..Len(dAB.regions) :
                  \E i \in 1..Len(nested) : \E j \in 1..Len(nested[i]) :
                      /\ nested[i][j].coords = dAB.regions[k].coords
                      /\ post.data[i][j] = dAB.regions[k].data

\* C7: diff(A, B) and diff(B, A) report the same set of region coordinates.
C7_DiffCoordsSymmetric ==
    (dAB.done /\ dBA.done)
        => /\ dAB.ok = dBA.ok
           /\ {dAB.regions[k].coords : k \in 1..Len(dAB.regions)}
                = {dBA.regions[k].coords : k \in 1..Len(dBA.regions)}

C7_Witness ==
    /\ dAB.done /\ dBA.done
    /\ Len(dAB.regions) > 1
    /\ A.coords.times # B.coords.times
    /\ Fresh(A)

\* The ops the second store holds beyond the first one's.
Extras == storeB \ storeA

\* The cells of the common grid of A and B that contain the op.
CellsOf(op) ==
    LET nested == RegionCoordsNested(Rectify(A, B).self.coords)
    IN  {c \in {<<i, j>> : i \in 1..Len(nested), j \in 1..Len(TimeSegments(Rectify(A, B).self.coords.times))} :
            CoordsContains(nested[c[1]][c[2]].coords, op)}

\* Every extra op falls in a cell of the common grid, no two in the same one.
ExtrasInDistinctCells ==
    /\ \A e \in Extras : CellsOf(e) # {}
    /\ \A e \in Extras : \A f \in Extras : e # f => CellsOf(e) \cap CellsOf(f) = {}

\* C8: when the second store holds the first one's ops plus k extra ops in k
\* distinct cells of the common grid, diff(from_store(store1),
\* from_store(store2)) returns k regions, each containing an extra op, and
\* each region's digest plus that op's digest is store2's digest of the region.
C8_DiffFindsExtras ==
    (/\ dAB.done /\ dAB.ok
     /\ Fresh(A) /\ Fresh(B)
     /\ storeA \subseteq storeB
     /\ Extras # {}
     /\ ExtrasInDistinctCells)
        => /\ Len(dAB.regions) = Cardinality(Extras)
           /\ \A n \in 1..Len(dAB.regions) :
                 \E e \in Extras :
                     /\ CoordsContains(dAB.regions[n].coords, e)
                     /\ Combine(dAB.regions[n].data, OpData(e))
                          = QueryRegionCoords(storeB, dAB.regions[n].coords)

\* The coordinates of the cells whose digests differ, in row-major order.
RECURSIVE DifferingCoords(_, _, _)
DifferingCoords(cells, s, o) ==
    IF cells = <<>> THEN <<>>
    ELSE LET i == Head(cells)[1]
             j == Head(cells)[2]
         IN  (IF s.data[i][j] # o.data[i][j]
              THEN <<RegionCoordsNested(s.coords)[i][j].coords>> ELSE <<>>)
             \o DifferingCoords(Tail(cells), s, o)

\* C9: diff(A, B) returns the region of cell (i, j), i the row of the data
\* grid, exactly when the rectified digests of that cell differ, in row-major
\* order.
C9_DiffIsCellwise ==
    (dAB.done /\ dAB.ok)
        => LET r == Rectify(A, B)
           IN  [k \in 1..Len(dAB.regions) |-> dAB.regions[k].coords]
                 = DifferingCoords(Cells(r.self.coords), r.self, r.other)

\* C10: region_coords_nested has one row per segment of the arq set and every
\* row has one entry per window of the TelescopingTimes.
ShapeOk(coords) ==
    LET nested == RegionCoordsNested(coords)
    IN  /\ Len(nested) = TotalSegments(coords.arq_set)
        /\ \A i \in 1..Len(nested) :
              Len(nested[i]) = Len(TimeSegments(coords.times))

C10_NestedShape == ShapeOk(A.coords) /\ ShapeOk(B.coords)

C10_Witness ==
    /\ rect.op = "ok"
    /\ Len(A.coords.arq_set) = 2
    /\ TotalSegments(A.coords.arq_set) = 3
    /\ Len(TimeSegments(A.coords.times)) = 2
    /\ Len(TimeSegments(rect.preA.coords.times)) = 3

\* ----------------------------------------------------------- from_store
\* The location lies on the arc of the arq: within count chunks of 2^power
\* quanta from the arq's start, around the ring.
InArq(arq, loc) ==
    ((loc - arq.start * Pow2(arq.power)) % Pow2(RingPow))
        < arq.count * Pow2(arq.power)

\* The op lies inside the coverage of the coordinate set.
Covered(coords, op) ==
    /\ op.time < coords.times.time
    /\ \E k \in 1..Len(coords.arq_set) : InArq(coords.arq_set[k], op.loc)

\* The sum of the item counts over all cells of the grid.
RECURSIVE SumCounts(_)
SumCounts(cells) ==
    IF cells = <<>> THEN 0 ELSE Head(cells).count + SumCounts(Tail(cells))

TotalCount(set) == SumCounts(Concat(set.data))

\* No two arqs of the set cover a common location.
ArqsDisjoint(arqs) ==
    \A k, m \in 1..Len(arqs) :
        k # m => ~\E loc \in 0..(Pow2(RingPow) - 1) :
                     InArq(arqs[k], loc) /\ InArq(arqs[m], loc)

\* C11 as stated: the item counts of a set built by from_store add up to the
\* number of store items inside the coverage of its coordinates.
C11_TotalIsCoveredItems ==
    built.kind = "from_store" =>
        TotalCount(built.set)
            = Cardinality({op \in built.store : Covered(built.coords, op)})

\* C11, amended: the item counts of a set built by from_store add up to the
\* number of (arq, store item) pairs with the item on the arq's arc and
\* before the time bound; when no two arqs overlap that is the number of
\* store items inside the coverage.
C11_TotalCountsItemsPerArq ==
    built.kind = "from_store" =>
        /\ TotalCount(built.set)
              = Cardinality({x \in (1..Len(built.coords.arq_set)) \X built.store :
                    /\ InArq(built.coords.arq_set[x[1]], x[2].loc)
                    /\ x[2].time < built.coords.times.time})
        /\ ArqsDisjoint(built.coords.arq_set) =>
              TotalCount(built.set)
                  = Cardinality({op \in built.store : Covered(built.coords, op)})

C11_Witness ==
    /\ built.kind = "from_store"
    /\ ArqsDisjoint(built.coords.arq_set)
    /\ Len(built.coords.arq_set) = 2
    /\ TotalCount(built.set) = 4
    /\ Cardinality(built.store) = 5
    /\ Len(TimeSegments(built.coords.times)) = 3

\* ------------------------------------------------------ into_region_set
\* The flat positions whose coordinates the callback fails on.
FailingPositions(coords, f) ==
    {k \in 1..Len(RegionCoordsFlat(coords)) :
        RegionCoordsFlat(coords)[k].coords \in f.fails}

FirstOf(positions) == CHOOSE k \in positions : \A m \in positions : k <= m

\* C12: into_region_set(f) is fail-fast: when f fails for some coordinate the
\* call returns the error of the first failing coordinate in row-major order
\* and f was invoked for the coordinates up to that one and for no later one;
\* when f never fails the grid has one row per spatial segment, one digest
\* per time window, and data[i][j] is f's result for the j-th coordinate of
\* row i.
C12_FailFast ==
    built.kind = "into_region_set" =>
        LET flat == RegionCoordsFlat(built.coords)
            nested == RegionCoordsNested(built.coords)
            failing == FailingPositions(built.coords, built.f)
        IN  IF failing # {}
            THEN /\ ~built.out.ok
                 /\ built.out.value = flat[FirstOf(failing)].coords
                 /\ built.out.calls = SubSeq(flat, 1, FirstOf(failing))
            ELSE /\ built.out.ok
                 /\ built.out.calls = flat
                 /\ built.out.value.coords = built.coords
                 /\ GridMatches(built.out.value)
                 /\ \A i \in 1..Len(nested) : \A j \in 1..Len(nested[i]) :
                       built.out.value.data[i][j]
                           = ApplyF(built.f, nested[i][j]).value

C12_Witness ==
    /\ built.kind = "into_region_set"
    /\ ~built.out.ok
    /\ Len(built.out.calls) = 3
    /\ Len(RegionCoordsNested(built.coords)) = 3
    /\ Len(TimeSegments(built.coords.times)) = 2
    /\ Cardinality(built.f.fails) = 1

\* ---------------------------------------------------------------- count
\* The number of rows of the data grid, and of columns of its rows.
Rows(set) == Len(set.data)
Columns(set) == IF set.data = <<>> THEN 0 ELSE Len(set.data[1])

CountIsCells(set) ==
    /\ Count(set) = Rows(set) * Columns(set)
    /\ Count(set) = Len(Concat(set.data))
    /\ (Rows(set) = 0 \/ Columns(set) = 0) => Count(set) = 0
    /\ RegionSetCount(Xtcs(set)) = Count(set)

\* C13: count() is the number of cells of the grid, rows times columns, and
\* 0 when the grid has no rows or its rows have no columns; RegionSet::count
\* is the count of the set it wraps.
C13_CountIsRowsTimesColumns == CountIsCells(A) /\ CountIsCells(B)

C13_Witness ==
    /\ Rows(A) = 3 /\ Columns(A) = 2 /\ Count(A) = 6
    /\ Rows(B) = 3 /\ Columns(B) = 0 /\ Count(B) = 0

\* --------------------------------------------------------- empty inputs
\* The set is empty: no arcs, no time windows, no data.
IsEmptySet(set) ==
    /\ set.coords.arq_set = ArqSetEmpty
    /\ TimeSegments(set.coords.times) = <<>>
    /\ set.data = <<>>

\* C14: empty inputs raise no error: empty() has count 0, rectifying two
\* empty sets succeeds and leaves both empty (no arcs, no windows, no data,
\* count 0), and the diff of two empty sets succeeds with no regions.
C14_EmptyInputsCompose ==
    /\ IsEmptySet(SetEmpty) /\ Count(SetEmpty) = 0
    /\ (rect.op # "none" /\ IsEmptySet(rect.preA) /\ IsEmptySet(rect.preB))
          => /\ rect.op = "ok"
             /\ IsEmptySet(A) /\ IsEmptySet(B)
             /\ Count(A) = 0 /\ Count(B) = 0
    /\ (dAB.done /\ IsEmptySet(A) /\ IsEmptySet(B))
          => (dAB.ok /\ dAB.regions = <<>>)
    /\ (dBA.done /\ IsEmptySet(A) /\ IsEmptySet(B))
          => (dBA.ok /\ dBA.regions = <<>>)

C14_Witness ==
    /\ rect.op = "ok"
    /\ rect.preA = SetEmpty /\ rect.preB = SetEmpty
    /\ storeA = {} /\ storeB = {}
    /\ IsEmptySet(A) /\ IsEmptySet(B)
    /\ dAB.done /\ dAB.ok /\ dAB.regions = <<>>

\* ----------------------------------------------------------------- tags
\* Every tag of the coordinate set is the (row, column) position of its
\* coordinates in region_coords_nested, and no two flat entries share a tag.
TagsArePositions(coords) ==
    LET nested == RegionCoordsNested(coords)
        flat == RegionCoordsFlat(coords)
    IN  /\ \A i \in 1..Len(nested) : \A j \in 1..Len(nested[i]) :
              nested[i][j].tag = <<i - 1, j - 1>>
        /\ \A k, m \in 1..Len(flat) : k # m => flat[k].tag # flat[m].tag

\* C15: for every coordinate set, of one arq or of more, the tag of a flat
\* entry is the (row, column) position of the entry in the nested grid, so
\* the tags are pairwise distinct and tag (i, j) addresses data[i][j].
C15_TagsAreGridPositions == TagsArePositions(A.coords) /\ TagsArePositions(B.coords)

\* ------------------------------------------------- rectify and the data
\* The combine of all digests of a row.
RECURSIVE CombineRow(_)
CombineRow(row) ==
    IF row = <<>> THEN DigestZero ELSE Combine(Head(row), CombineRow(Tail(row)))

\* The operands of the last rectify by their TelescopingTimes before it.
LesserPre == IF TimesGreater(rect.preA.coords.times, rect.preB.coords.times)
             THEN rect.preB ELSE rect.preA
GreaterPre == IF TimesGreater(rect.preA.coords.times, rect.preB.coords.times)
              THEN rect.preA ELSE rect.preB

\* C16 as stated: after a successful rectify the combine of every row of
\* either operand is what it was before.
C16_RowCombinePreserved ==
    rect.op = "ok" =>
        /\ \A i \in 1..Len(A.data) :
              CombineRow(A.data[i]) = CombineRow(rect.preA.data[i])
        /\ \A i \in 1..Len(B.data) :
              CombineRow(B.data[i]) = CombineRow(rect.preB.data[i])

\* C16, amended: after a successful rectify every row that self holds has
\* the combine of the same row of the operand that had the lesser (or equal)
\* times, whose windows were merged; every row that other holds is the first
\* cells, as many as the common row length, of the same row of the operand
\* that had the greater times, the later cells being omitted.
C16_MergedKeptGreaterCut ==
    rect.op = "ok" =>
        /\ Len(A.data) = Len(LesserPre.data)
        /\ Len(B.data) = Len(GreaterPre.data)
        /\ \A i \in 1..Len(A.data) :
              /\ CombineRow(A.data[i]) = CombineRow(LesserPre.data[i])
              /\ B.data[i] = SubSeq(GreaterPre.data[i], 1, Len(A.data[i]))

C16_Witness ==
    /\ rect.op = "ok"
    /\ Len(A.data) = 2
    /\ Len(A.data[1]) = 1
    /\ Len(LesserPre.data[1]) = 2
    /\ Len(GreaterPre.data[1]) = 3
    /\ A.data[1][1].count = 1
    /\ CombineRow(B.data[1]) # CombineRow(GreaterPre.data[1])

\* ---------------------------------------------- rectify and the windows
\* C17: after a successful rectify of two sets with different
\* TelescopingTimes, both operands have the same list of time windows: the
\* first n windows of the operand whose times were the greater, n being the
\* common row length.
C17_WindowsOfGreaterTimes ==
    (rect.op = "ok" /\ rect.preA.coords.times # rect.preB.coords.times) =>
        /\ TimeSegments(A.coords.times) = TimeSegments(B.coords.times)
        /\ TimeSegments(A.coords.times)
              = SubSeq(TimeSegments(GreaterPre.coords.times), 1, Columns(A))
        /\ \A i \in 1..Len(A.data) : Len(A.data[i]) = Columns(A)
        /\ \A i \in 1..Len(B.data) : Len(B.data[i]) = Columns(A)

C17_Witness ==
    /\ rect.op = "ok"
    /\ rect.preA.coords.times # rect.preB.coords.times
    /\ Rows(A) = 2 /\ Columns(A) = 2
    /\ Len(TimeSegments(GreaterPre.coords.times)) = 3
    /\ TimeSegments(A.coords.times) # TimeSegments(LesserPre.coords.times)
    /\ TimesGreater(rect.preA.coords.times, rect.preB.coords.times)

\* -------------------------------------------------- the database registry
\* Thread t returns from its call in this step.
Returns(t) == thr[t].pc # "idle" /\ thr'[t].pc = "idle"

\* Each path was registered by at most one call, the one that returned Ok.
RegisteredOnce ==
    \A p \in Paths :
        /\ okCalls[p] <= 1
        /\ dbmap[p].registered <=> okCalls[p] = 1

\* What a returning call returns and does to the registry.
ReturnsAsRegistryTells(t) ==
    LET p == thr[t].path
    IN  Returns(t) =>
          /\ (thr[t].op = "init" /\ okCalls[p] > 0) =>
                (thr'[t].res = "EnvironmentDoubleInitialized" /\ dbmap' = dbmap)
          /\ (thr[t].op = "init" /\ thr'[t].res = "EnvironmentDoubleInitialized") =>
                (okCalls[p] = 1 /\ dbmap' = dbmap)
          /\ (thr[t].op = "init" /\ thr'[t].res = "RegisterError") =>
                (dbmap' = dbmap /\ ~dbmap'[p].registered)
          /\ (thr[t].op = "init" /\ thr'[t].res = "Ok") =>
                /\ okCalls[p] = 0 /\ okCalls'[p] = 1
                /\ dbmap'[p].registered
                /\ \A q \in Paths \ {p} : dbmap'[q] = dbmap[q]
          /\ (thr[t].op = "get" /\ okCalls[p] = 0) =>
                thr'[t].res = "EnvironmentMissing"

\* C18: in any interleaving of initialize_databases calls each path is
\* registered at most once: the one call on a path whose store registration
\* succeeds returns Ok, every call on a path already registered returns
\* EnvironmentDoubleInitialized and leaves the registry as it was, a call
\* whose store registration fails leaves the path unregistered, and get_db on
\* a path no call has registered returns EnvironmentMissing.
C18_RegisteredAtMostOnce ==
    /\ []RegisteredOnce
    /\ [][\A t \in Threads : ReturnsAsRegistryTells(t)]_vars

C18_Witness ==
    /\ okCalls["env1"] = 1 /\ okCalls["env2"] = 0
    /\ thr[1].op = "init" /\ thr[1].path = "env1" /\ thr[1].res = "Ok"
    /\ thr[2].op = "init" /\ thr[2].path = "env1"
    /\ thr[2].res = "EnvironmentDoubleInitialized"
    /\ dbmap["env1"].um = {"Wasm", "DnaDef"}

====
